---- MODULE Spec2Model ----
(***************************************************************************)
(* Model of the resume evaluation backend (backend/src/agent): the         *)
(* /evaluate-resume pipeline of app.py and the skill matcher of tools.py.  *)
(* Strings are sequences of one-character strings, so that lower(),        *)
(* strip(), split() and the substring test are computed, not assumed.      *)
(***************************************************************************)
EXTENDS Integers, Sequences, FiniteSets, TLC

VARIABLES
    pc,                 \* position of the /evaluate-resume handler
    resume_text,        \* request.resume_text
    job_description,    \* request.job_description
    skills_analysis,    \* result of analyze_skills_matching
    evaluation_prompt,  \* what the evaluation agent was invoked with
    evaluation_report,  \* accumulated text of the evaluation stream
    rating_prompt,      \* what the rating agent was invoked with
    rating_results,     \* accumulated text of the rating stream
    response,           \* what the caller receives
    events,             \* events received from the agent stream being read
    log,                \* history of provider/agent invocations of the run
    arg1, arg2,         \* inputs of the function under check
    result              \* its output

vars == <<pc, resume_text, job_description, skills_analysis, evaluation_prompt,
          evaluation_report, rating_prompt, rating_results, response, events,
          log, arg1, arg2, result>>

pipelineVars == <<pc, resume_text, job_description, skills_analysis,
                  evaluation_prompt, evaluation_report, rating_prompt,
                  rating_results, response, events, log>>

\* skills_analysis before analyze_skills_matching has returned
NoAnalysis ==
    [resume_skills |-> <<>>, job_skills |-> <<>>, matching_skills |-> <<>>,
     missing_skills |-> <<>>, match_percentage |-> 0, summary |-> <<"unset">>,
     fallback_used |-> FALSE, error |-> FALSE]

\* response before the handler has answered
NoReply ==
    [status |-> 0, success |-> FALSE, evaluation_report |-> <<>>,
     rating_and_generation |-> <<>>]

\* the /evaluate-resume handler is not running
Idle ==
    /\ pc = "idle"
    /\ resume_text = <<>>
    /\ job_description = <<>>
    /\ skills_analysis = NoAnalysis
    /\ evaluation_prompt = <<>>
    /\ evaluation_report = <<>>
    /\ rating_prompt = <<>>
    /\ rating_results = <<>>
    /\ response = NoReply
    /\ events = 0
    /\ log = <<>>

-----------------------------------------------------------------------------
(* Bounds *)

MaxLen == 5        \* longest string given to skills_match
MaxSkills == 2     \* most comma-separated items in one extraction response
MaxChunks == 2     \* most content events in one agent stream
MaxCount == 50     \* longest skill list given to calculate_match_percentage

-----------------------------------------------------------------------------
(* Python str operations *)

Range(s) == {s[i] : i \in 1..Len(s)}

Alphabet == {"a", "A", " "}

Strings(n) == UNION {[1..k -> Alphabet] : k \in 0..n}

\* str.lower() on one character
LowerChar(c) == CASE c = "A" -> "a"
                  [] c = "B" -> "b"
                  [] c = "D" -> "d"
                  [] c = "F" -> "f"
                  [] c = "P" -> "p"
                  [] c = "R" -> "r"
                  [] c = "S" -> "s"
                  [] c = "W" -> "w"
                  [] OTHER -> c

\* str.lower()
lower(s) == [i \in 1..Len(s) |-> LowerChar(s[i])]

\* str.strip(): drop leading and trailing whitespace
strip(s) ==
    LET keep == {i \in 1..Len(s) : s[i] # " "}
    IN  IF keep = {} THEN <<>>
        ELSE SubSeq(s, CHOOSE i \in keep : \A j \in keep : i <= j,
                       CHOOSE i \in keep : \A j \in keep : i >= j)

\* the Python operator "sub in s" on strings
Contains(sub, s) ==
    \E i \in 0..(Len(s) - Len(sub)) : SubSeq(s, i + 1, i + Len(sub)) = sub

\* str.split(sep) for a one-character separator: empty pieces are kept
RECURSIVE SplitOn(_, _, _)
SplitOn(s, sep, cur) ==
    IF s = <<>> THEN <<cur>>
    ELSE IF Head(s) = sep THEN <<cur>> \o SplitOn(Tail(s), sep, <<>>)
    ELSE SplitOn(Tail(s), sep, Append(cur, Head(s)))

\* str.split(): split on runs of whitespace, no empty pieces
split(s) == SelectSeq(SplitOn(s, " ", <<>>), LAMBDA w : w # <<>>)

-----------------------------------------------------------------------------
(* tools.py: the skill matcher *)

\* the set comprehension of skills_match: words longer than two characters
SignificantWords(s) == {w \in Range(split(s)) : Len(w) > 2}

\* skills_match comparing the skills as written, without lower()
skills_match_nolower(skill1, skill2) ==
    LET s1 == strip(skill1)
        s2 == strip(skill2)
        words1 == SignificantWords(s1)
        words2 == SignificantWords(s2)
    IN  \/ s1 = s2
        \/ Contains(s1, s2) \/ Contains(s2, s1)
        \/ words1 # {} /\ words2 # {} /\ words1 \cap words2 # {}

skills_match_onedir(skill1, skill2) ==
    LET s1 == strip(lower(skill1))
        s2 == strip(lower(skill2))
    IN  \/ s1 = s2
        \/ Contains(s1, s2)
        \/ /\ SignificantWords(s1) # {}
           /\ SignificantWords(s2) # {}
           /\ SignificantWords(s1) \cap SignificantWords(s2) # {}

skills_match(skill1, skill2) ==
    LET s1 == strip(lower(skill1))
        s2 == strip(lower(skill2))
        words1 == SignificantWords(s1)
        words2 == SignificantWords(s2)
    IN  \/ s1 = s2
        \/ Contains(s1, s2) \/ Contains(s2, s1)
        \/ words1 # {} /\ words2 # {} /\ words1 \cap words2 # {}

-----------------------------------------------------------------------------------------------------------------------------------------------------
(* Python float arithmetic: IEEE 754 binary64, round to nearest, ties to   *)
(* even.  A positive float is [bits, exp]: 53 mantissa bits, most          *)
(* significant first (the first is 1), of value 1.b2...b53 * 2^exp; zero   *)
(* has no bits.  Only what int((m / n) * 100) needs is modelled.  The 52   *)
(* fraction bits are computed 13 at a time to keep the integers small.     *)

MantissaBits == 53
LimbBits == 13
LimbBase == 8192
NumLimbs == 4

Pow2(k) == LET half[i \in 0..k] == IF i = 0 THEN 1 ELSE 2 * half[i - 1] IN half[k]

FloatZero == [bits |-> <<>>, exp |-> 0]

\* the w-bit binary representation of x, most significant bit first
ToBits(x, w) == [i \in 1..w |-> (x \div Pow2(w - i)) % 2]

\* value of a bit string
RECURSIVE BitsValue(_)
BitsValue(b) ==
    IF b = <<>> THEN 0 ELSE 2 * BitsValue(SubSeq(b, 1, Len(b) - 1)) + b[Len(b)]

\* the bit string of the digits d (base LimbBase) behind the leading bits
Flatten(lead, d) ==
    lead \o [i \in 1..(LimbBits * Len(d)) |->
                ToBits(d[((i - 1) \div LimbBits) + 1], LimbBits)[((i - 1) % LimbBits) + 1]]

\* add one to a mantissa; all ones carries into 1000...0 one binade up
RoundUp(b, e) ==
    LET zeros == {i \in 1..Len(b) : b[i] = 0}
    IN  IF zeros = {}
        THEN [bits |-> [i \in 1..Len(b) |-> IF i = 1 THEN 1 ELSE 0], exp |-> e + 1]
        ELSE LET z == CHOOSE i \in zeros : \A j \in zeros : j <= i
             IN  [bits |-> [i \in 1..Len(b) |->
                               IF i < z THEN b[i] ELSE IF i = z THEN 1 ELSE 0],
                  exp |-> e]

\* k further base-LimbBase digits of r / d for r < d, with the last remainder
RECURSIVE DivDigits(_, _, _)
DivDigits(r, d, k) ==
    IF k = 0 THEN [digits |-> <<>>, rem |-> r]
    ELSE LET t == r * LimbBase
             rest == DivDigits(t % d, d, k - 1)
         IN  [digits |-> <<t \div d>> \o rest.digits, rem |-> rest.rem]

\* floor(log2(m / n)) for m, n > 0
RECURSIVE Log2Floor(_, _, _)
Log2Floor(m, n, e) ==
    IF m >= n
    THEN IF m >= 2 * n THEN Log2Floor(m, 2 * n, e + 1) ELSE e
    ELSE Log2Floor(2 * m, n, e - 1)

\* float(m) / float(n) for small non-negative integers, n > 0
FloatDiv(m, n) ==
    IF m = 0 THEN FloatZero
    ELSE LET e == Log2Floor(m, n, 0)
             num == IF e < 0 THEN m * Pow2(0 - e) ELSE m
             den == IF e > 0 THEN n * Pow2(e) ELSE n
             q == DivDigits(num - den, den, NumLimbs)
             bits == Flatten(<<1>>, q.digits)
             up == \/ 2 * q.rem > den
                   \/ 2 * q.rem = den /\ bits[MantissaBits] = 1
         IN  IF up THEN RoundUp(bits, e) ELSE [bits |-> bits, exp |-> e]

\* digits * c in base LimbBase, least significant digit last, carry out first
RECURSIVE MulDigits(_, _)
MulDigits(d, c) ==
    IF d = <<>> THEN <<0>>
    ELSE LET low == MulDigits(Tail(d), c)
             t == Head(d) * c + Head(low)
         IN  <<t \div LimbBase, t % LimbBase>> \o Tail(low)

\* x * float(c) for a float x and a small positive integer c
FloatMul(x, c) ==
    IF x.bits = <<>> THEN FloatZero
    ELSE LET digits == [j \in 1..NumLimbs |->
                          BitsValue(SubSeq(x.bits, 2 + LimbBits * (j - 1), 1 + LimbBits * j))]
             prod == MulDigits(digits, c)
             full == Flatten(ToBits(c + Head(prod), LimbBits), Tail(prod))
             first == CHOOSE i \in 1..Len(full) :
                         full[i] = 1 /\ \A j \in 1..(i - 1) : full[j] = 0
             p == SubSeq(full, first, Len(full))
             L == Len(p)
             e == x.exp + (L - MantissaBits)
             top == SubSeq(p, 1, MantissaBits)
             rest == SubSeq(p, MantissaBits + 1, L)
             guard == rest # <<>> /\ rest[1] = 1
             sticky == \E i \in 2..Len(rest) : rest[i] = 1
             up == guard /\ (sticky \/ top[MantissaBits] = 1)
         IN  IF up THEN RoundUp(top, e) ELSE [bits |-> top, exp |-> e]

\* int(x): truncation toward zero of a non-negative float below 2^31
FloatToInt(x) ==
    IF x.bits = <<>> \/ x.exp < 0 THEN 0
    ELSE BitsValue(SubSeq(x.bits, 1, x.exp + 1))

\* digits / c in base LimbBase, most significant digit first, r carried in
RECURSIVE DivLimbs(_, _, _)
DivLimbs(d, c, r) ==
    IF d = <<>> THEN [digits |-> <<>>, rem |-> r]
    ELSE LET t == r * LimbBase + Head(d)
             rest == DivLimbs(Tail(d), c, t % c)
         IN  [digits |-> <<t \div c>> \o rest.digits, rem |-> rest.rem]

\* x / float(c) for a float x and a small positive integer c: the mantissa
\* with 12 zero bits behind it (5 digits) is divided, the quotient rounded
FloatDivInt(x, c) ==
    IF x.bits = <<>> THEN FloatZero
    ELSE LET numer == x.bits \o [i \in 1..(5 * LimbBits - MantissaBits) |-> 0]
             digits == [j \in 1..5 |->
                          BitsValue(SubSeq(numer, 1 + LimbBits * (j - 1), LimbBits * j))]
             q == DivLimbs(digits, c, 0)
             full == Flatten(<<>>, q.digits)
             first == CHOOSE i \in 1..Len(full) :
                         full[i] = 1 /\ \A j \in 1..(i - 1) : full[j] = 0
             p == SubSeq(full, first, Len(full))
             L == Len(p)
             e == x.exp - (5 * LimbBits - 1) + (L - 1)
             top == SubSeq(p, 1, MantissaBits)
             rest == SubSeq(p, MantissaBits + 1, L)
             guard == rest[1] = 1
             sticky == q.rem # 0 \/ \E i \in 2..Len(rest) : rest[i] = 1
             up == guard /\ (sticky \/ top[MantissaBits] = 1)
         IN  IF up THEN RoundUp(top, e) ELSE [bits |-> top, exp |-> e]

-----
(* tools.py: calculate_match_percentage *)

calculate_match_percentage(matching_skills, job_skills) ==
    IF job_skills = <<>> THEN 0
    ELSE FloatToInt(FloatMul(FloatDiv(Len(matching_skills), Len(job_skills)), 100))

-----------------------------------------------------------------------------
(* tools.py: extract_skills_from_text and analyze_skills_matching.  A call *)
(* of client.models.generate_content is its outcome: it raises, or it      *)
(* returns a text.  For the first call of analyze_skills_matching the text *)
(* either decodes as JSON (to the value carried) or it does not.           *)

NoSkills == <<>>

Dict(rs, js, ms, miss, pct, summary, fb, err) ==
    [resume_skills |-> rs, job_skills |-> js, matching_skills |-> ms,
     missing_skills |-> miss, match_percentage |-> pct, summary |-> summary,
     fallback_used |-> fb, error |-> err]

\* the dictionary of the outer except clause
ErrorResult ==
    Dict(NoSkills, NoSkills, NoSkills, NoSkills, 0, <<"failed">>, FALSE, TRUE)

\* extract_skills_from_text: split on commas, strip, drop the empty items;
\* any failure of the call gives the empty list
extract_skills_from_text(resp) ==
    IF resp.raises THEN NoSkills
    ELSE LET skills_text == strip(resp.text)
             items == SplitOn(skills_text, ",", <<>>)
             stripped == [i \in 1..Len(items) |-> strip(items[i])]
         IN  SelectSeq(stripped, LAMBDA skill : skill # <<>>)

InSeq(x, s) == \E i \in 1..Len(s) : s[i] = x

\* the loop of lines 327-332 appending the job skill instead of the resume skill
RECURSIVE matching_loop_jobphrase(_, _, _)
matching_loop_jobphrase(resume_skills, job_skills, matching_skills) ==
    IF resume_skills = <<>> THEN matching_skills
    ELSE LET resume_skill == Head(resume_skills)
             hits == {k \in 1..Len(job_skills) : skills_match(resume_skill, job_skills[k])}
             first == job_skills[CHOOSE k \in hits : \A l \in hits : k <= l]
         IN  matching_loop_jobphrase(Tail(resume_skills), job_skills,
                 IF hits # {} /\ ~InSeq(first, matching_skills)
                 THEN Append(matching_skills, first) ELSE matching_skills)

\* for resume_skill in resume_skills: for job_skill in job_skills:
\*     if skills_match(...): append unless present; break
RECURSIVE matching_loop(_, _, _)
matching_loop(resume_skills, job_skills, matching_skills) ==
    IF resume_skills = <<>> THEN matching_skills
    ELSE LET resume_skill == Head(resume_skills)
             hit == \E k \in 1..Len(job_skills) : skills_match(resume_skill, job_skills[k])
         IN  matching_loop(Tail(resume_skills), job_skills,
                 IF hit /\ ~InSeq(resume_skill, matching_skills)
                 THEN Append(matching_skills, resume_skill) ELSE matching_skills)

\* the loop of lines 335-337 keeping the job skills that are matched
missing_loop_inverted(resume_skills, job_skills) ==
    SelectSeq(job_skills, LAMBDA job_skill :
        \E i \in 1..Len(resume_skills) : skills_match(resume_skills[i], job_skill))

\* for job_skill in job_skills: if not any(skills_match(r, job_skill) ...): append
missing_loop(resume_skills, job_skills) ==
    SelectSeq(job_skills, LAMBDA job_skill :
        ~\E i \in 1..Len(resume_skills) : skills_match(resume_skills[i], job_skill))

\* the fallback with an extraction that lets the provider error escape: the
\* outer except clause then answers
fallback_match_propagate(resume_resp, job_resp) ==
    IF resume_resp.raises \/ job_resp.raises THEN ErrorResult
    ELSE LET resume_skills == extract_skills_from_text(resume_resp)
             job_skills == extract_skills_from_text(job_resp)
             matching_skills == matching_loop(resume_skills, job_skills, <<>>)
         IN  Dict(resume_skills, job_skills, matching_skills,
                  missing_loop(resume_skills, job_skills),
                  calculate_match_percentage(matching_skills, job_skills),
                  <<"fallback", Len(matching_skills), Len(job_skills)>>, TRUE, FALSE)

\* the except json.JSONDecodeError branch
fallback_match(resume_resp, job_resp) ==
    LET resume_skills == extract_skills_from_text(resume_resp)
        job_skills == extract_skills_from_text(job_resp)
        matching_skills == matching_loop(resume_skills, job_skills, <<>>)
        missing_skills == missing_loop(resume_skills, job_skills)
        match_percentage == calculate_match_percentage(matching_skills, job_skills)
    IN  Dict(resume_skills, job_skills, matching_skills, missing_skills,
             match_percentage,
             <<"fallback", Len(matching_skills), Len(job_skills)>>, TRUE, FALSE)

analyze_skills_matching(resp, resume_resp, job_resp) ==
    IF resp.kind = "raise" THEN ErrorResult
    ELSE IF resp.kind = "json" THEN resp.value
    ELSE fallback_match(resume_resp, job_resp)

-----------------------------------------------------------------------------
(* Provider outcomes the matcher is checked on *)

\* one item of a comma-separated extraction response, before strip()
RawItems ==
    { <<>>,
      <<"a">>,
      <<" ", "A">>,
      <<"a", "b">>,
      <<"b">>,
      <<"a", "a", "a", " ", "b">>,
      <<"c", " ", "a", "a", "a">> }

RECURSIVE JoinComma(_)
JoinComma(items) ==
    IF items = <<>> THEN <<>>
    ELSE IF Len(items) = 1 THEN items[1]
    ELSE items[1] \o <<",">> \o JoinComma(Tail(items))

ExtractTexts ==
    {JoinComma(items) : items \in UNION {[1..k -> RawItems] : k \in 0..MaxSkills}}

NoResponse == [raises |-> TRUE, text |-> <<>>]

ExtractResponses ==
    {NoResponse} \cup {[raises |-> FALSE, text |-> t] : t \in ExtractTexts}

\* what the model may answer as JSON: nothing constrains it
ProviderJson ==
    { Dict(<<<<"a">>>>, <<<<"a">>, <<"b">>>>, <<<<"a">>>>, <<<<"b">>>>, 50,
           <<"model">>, FALSE, FALSE),
      Dict(<<<<"a">>>>, <<<<"a">>>>, <<<<"a">>, <<"a">>>>, NoSkills, 100,
           <<"model">>, FALSE, FALSE) }

MatchResponses ==
    { [kind |-> "raise", value |-> ErrorResult],
      [kind |-> "prose", value |-> ErrorResult] }
    \cup {[kind |-> "json", value |-> d] : d \in ProviderJson}

InitMatcher ==
    /\ arg1 \in MatchResponses
    /\ arg2 \in IF arg1.kind = "prose"
                THEN ExtractResponses \X ExtractResponses
                ELSE {<<NoResponse, NoResponse>>}
    /\ result = <<>>
    /\ Idle

ApplyMatcher ==
    /\ result = <<>>
    /\ result' = <<analyze_skills_matching(arg1, arg2[1], arg2[2])>>
    /\ UNCHANGED <<arg1, arg2>>
    /\ UNCHANGED pipelineVars

NextMatcher == ApplyMatcher

SpecMatcher == InitMatcher /\ [][NextMatcher]_vars

Fallback == result # <<>> /\ arg1.kind = "prose"

Matches(resume_skill, job_skills) ==
    \E k \in 1..Len(job_skills) : skills_match(resume_skill, job_skills[k])

\* s is t with some elements left out: a strictly increasing embedding exists
IsSubsequence(s, t) ==
    \E f \in [1..Len(s) -> 1..Len(t)] :
        /\ \A i \in 1..Len(s) : s[i] = t[f[i]]
        /\ \A i, j \in 1..Len(s) : i < j => f[i] < f[j]

NoDuplicates(s) == \A i, j \in 1..Len(s) : i # j => s[i] # s[j]

-----------------------------------------------------------------------------
(* app.py: POST /evaluate-resume, evaluate_resume_directly.  One action    *)
(* per step of the handler; an agent stream is read one event at a time.   *)
(* log is what the run did that can be seen from outside: the calls it     *)
(* made and the DEBUG lines it printed.                                    *)

RequestTexts == {<<>>, <<" ">>, <<" ", " ">>, <<"r">>, <<" ", "r">>, <<"j", " ">>}

EvaluationChunks == {"E1", "E2"}
RatingChunks == {"R1", "R2"}

\* the provider outcomes analyze_skills_matching meets inside the handler
HandlerExtractResponses ==
    { NoResponse,
      [raises |-> FALSE, text |-> <<"a">>],
      [raises |-> FALSE, text |-> <<"a", ",", "a", "b">>] }

HTTPException(code) ==
    [status |-> code, success |-> FALSE, evaluation_report |-> <<>>,
     rating_and_generation |-> <<>>]

Init ==
    /\ Idle
    /\ arg1 = <<>>
    /\ arg2 = <<>>
    /\ result = <<>>

\* a request arrives; the handler starts with fresh locals
Request ==
    /\ pc \in {"idle", "done", "error"}
    /\ \E rt \in RequestTexts, jd \in RequestTexts :
          /\ resume_text' = rt
          /\ job_description' = jd
    /\ pc' = "validate"
    /\ skills_analysis' = NoAnalysis
    /\ evaluation_prompt' = <<>>
    /\ evaluation_report' = <<>>
    /\ rating_prompt' = <<>>
    /\ rating_results' = <<>>
    /\ response' = NoReply
    /\ events' = 0
    /\ log' = <<>>
    /\ UNCHANGED <<arg1, arg2, result>>

\* lines 283-287 with the tests "not request.resume_text" (no strip)
ValidateNoStrip ==
    /\ pc = "validate"
    /\ IF resume_text = <<>> \/ job_description = <<>>
       THEN /\ pc' = "error"
            /\ response' = HTTPException(400)
       ELSE /\ pc' = "skill_match"
            /\ UNCHANGED response
    /\ UNCHANGED <<resume_text, job_description, skills_analysis, evaluation_prompt,
                   evaluation_report, rating_prompt, rating_results, events, log,
                   arg1, arg2, result>>

\* lines 283-287: empty or whitespace-only text raises HTTPException(400),
\* which the handler re-raises (line 414)
Validate ==
    /\ pc = "validate"
    /\ IF strip(resume_text) = <<>> \/ strip(job_description) = <<>>
       THEN /\ pc' = "error"
            /\ response' = HTTPException(400)
       ELSE /\ pc' = "skill_match"
            /\ UNCHANGED response
    /\ UNCHANGED <<resume_text, job_description, skills_analysis, evaluation_prompt,
                   evaluation_report, rating_prompt, rating_results, events, log,
                   arg1, arg2, result>>

\* line 291: analyze_skills_matching never raises, it returns a dictionary
SkillMatch ==
    /\ pc = "skill_match"
    /\ \E resp \in MatchResponses :
       \E rr \in (IF resp.kind = "prose" THEN HandlerExtractResponses ELSE {NoResponse}) :
       \E jr \in (IF resp.kind = "prose" THEN HandlerExtractResponses ELSE {NoResponse}) :
          skills_analysis' = analyze_skills_matching(resp, rr, jr)
    /\ log' = Append(log, "skill_match")
    /\ pc' = "evaluation"
    /\ UNCHANGED <<resume_text, job_description, evaluation_prompt, evaluation_report,
                   rating_prompt, rating_results, response, events, arg1, arg2, result>>

\* lines 294-330: build the evaluation prompt, call evaluation_runner.run_async
EvaluationInvoke ==
    /\ pc = "evaluation"
    /\ evaluation_prompt' = <<resume_text, job_description, skills_analysis>>
    /\ evaluation_report' = <<>>
    /\ events' = 0
    /\ log' = Append(log, "evaluation")
    /\ pc' = "evaluation_stream"
    /\ UNCHANGED <<resume_text, job_description, skills_analysis, rating_prompt,
                   rating_results, response, arg1, arg2, result>>

\* lines 328-335: one event of the stream; only an event with content adds text
EvaluationEvent ==
    /\ pc = "evaluation_stream"
    /\ events < MaxChunks
    /\ events' = events + 1
    /\ \/ \E chunk_text \in EvaluationChunks :
             evaluation_report' = Append(evaluation_report, chunk_text)
       \/ UNCHANGED evaluation_report
    /\ UNCHANGED <<pc, resume_text, job_description, skills_analysis, evaluation_prompt,
                   rating_prompt, rating_results, response, log, arg1, arg2, result>>

\* the stream raises and the handler calls the evaluation agent again
EvaluationRaiseRetry ==
    /\ pc = "evaluation_stream"
    /\ pc' = "evaluation"
    /\ log' = Append(log, "evaluation_error")
    /\ UNCHANGED <<resume_text, job_description, skills_analysis, evaluation_prompt,
                   evaluation_report, rating_prompt, rating_results, response, events,
                   arg1, arg2, result>>

\* the stream raises: line 416 turns the exception into HTTPException(500)
EvaluationRaise ==
    /\ pc = "evaluation_stream"
    /\ pc' = "error"
    /\ response' = HTTPException(500)
    /\ log' = Append(log, "evaluation_error")
    /\ UNCHANGED <<resume_text, job_description, skills_analysis, evaluation_prompt,
                   evaluation_report, rating_prompt, rating_results, events,
                   arg1, arg2, result>>

\* line 337: the stream is exhausted
EvaluationEnd ==
    /\ pc = "evaluation_stream"
    /\ pc' = "rating"
    /\ log' = Append(log, "evaluation_end")
    /\ UNCHANGED <<resume_text, job_description, skills_analysis, evaluation_prompt,
                   evaluation_report, rating_prompt, rating_results, response, events,
                   arg1, arg2, result>>

\* lines 340-386: build the rating prompt, call rating_runner.run_async
RatingInvoke ==
    /\ pc = "rating"
    /\ rating_prompt' = <<evaluation_report, skills_analysis, resume_text, job_description>>
    /\ rating_results' = <<>>
    /\ events' = 0
    /\ log' = Append(log, "rating")
    /\ pc' = "rating_stream"
    /\ UNCHANGED <<resume_text, job_description, skills_analysis, evaluation_prompt,
                   evaluation_report, response, arg1, arg2, result>>

\* lines 384-391: one event of the rating stream
RatingEvent ==
    /\ pc = "rating_stream"
    /\ events < MaxChunks
    /\ events' = events + 1
    /\ \/ \E chunk_text \in RatingChunks :
             rating_results' = Append(rating_results, chunk_text)
       \/ UNCHANGED rating_results
    /\ UNCHANGED <<pc, resume_text, job_description, skills_analysis, evaluation_prompt,
                   evaluation_report, rating_prompt, response, log, arg1, arg2, result>>

\* lines 406-412
SuccessResponse ==
    [status |-> 200, success |-> TRUE, evaluation_report |-> evaluation_report,
     rating_and_generation |-> rating_results,
     workflow_type |-> "sequential_evaluation_and_rating",
     message |-> "Resume evaluation and rating completed using sequential agents"]

\* lines 397-412: the inner except prints the error and the handler goes on
\* to return the success response with whatever text had arrived
RatingRaise ==
    /\ pc = "rating_stream"
    /\ pc' = "done"
    /\ response' = SuccessResponse
    /\ log' = Append(log, "rating_error")
    /\ UNCHANGED <<resume_text, job_description, skills_analysis, evaluation_prompt,
                   evaluation_report, rating_prompt, rating_results, events,
                   arg1, arg2, result>>

\* lines 400-412: the stream is exhausted, the success response is returned
RatingEnd ==
    /\ pc = "rating_stream"
    /\ pc' = "done"
    /\ response' = SuccessResponse
    /\ log' = Append(log, "rating_end")
    /\ UNCHANGED <<resume_text, job_description, skills_analysis, evaluation_prompt,
                   evaluation_report, rating_prompt, rating_results, events,
                   arg1, arg2, result>>

Next ==
    \/ Request
    \/ Validate
    \/ SkillMatch
    \/ EvaluationInvoke
    \/ EvaluationEvent
    \/ EvaluationRaise
    \/ EvaluationEnd
    \/ RatingInvoke
    \/ RatingEvent
    \/ RatingRaise
    \/ RatingEnd

Spec == Init /\ [][Next]_vars

\* the calls of the run, in the order they were made
Invocations ==
    SelectSeq(log, LAMBDA e : e \in {"skill_match", "evaluation", "rating"})

StageOrder == <<"skill_match", "evaluation", "rating">>

IsPrefix(s, t) == Len(s) <= Len(t) /\ SubSeq(t, 1, Len(s)) = s

Before(first, second) ==
    \A i \in 1..Len(log) : log[i] = second => \E j \in 1..(i - 1) : log[j] = first

ProviderFailed ==
    \E i \in 1..Len(log) : log[i] \in {"evaluation_error", "rating_error"}

EmptyInput == strip(resume_text) = <<>> \/ strip(job_description) = <<>>

\* C1: the stages of a run are called in the order skill match, evaluation,
\* rating, each at most once and each exactly once in a run that ends in done;
\* the rating agent is called only after the evaluation stream has ended, the
\* evaluation agent only after analyze_skills_matching has returned, and the
\* rating prompt holds the accumulated evaluation report, the skills analysis
\* and the resume text.
C1_StageOrder ==
    /\ IsPrefix(Invocations, StageOrder)
    /\ Before("evaluation_end", "rating")
    /\ Before("skill_match", "evaluation")
    /\ pc = "done" => Invocations = StageOrder
    /\ pc \in {"evaluation_stream", "rating", "rating_stream", "done"} =>
          evaluation_prompt = <<resume_text, job_description, skills_analysis>>
    /\ pc \in {"rating_stream", "done"} =>
          /\ rating_prompt[1] = evaluation_report
          /\ rating_prompt[2] = skills_analysis
          /\ rating_prompt[3] = resume_text

\* a run that went through all three stages with a two-chunk evaluation report
C1_Witness ==
    /\ pc = "done"
    /\ Len(evaluation_report) = 2
    /\ Len(rating_results) = 2
    /\ rating_prompt[1] = evaluation_report
    /\ log = <<"skill_match", "evaluation", "evaluation_end", "rating", "rating_end">>

\* C2: when the provider fails during the evaluation or the rating stage the
\* caller gets a failure, never the success response.
C2_ProviderFailureIsError ==
    (pc \in {"done", "error"} /\ ProviderFailed) =>
        (pc = "error" /\ ~response.success /\ response.status >= 500)

\* C3: when the skill-match call raises, the run ends in a failure and neither
\* the evaluation nor the rating agent is called with the zeroed result.
C3_SkillMatchFailureIsTerminal ==
    skills_analysis.error =>
        /\ Invocations = <<"skill_match">>
        /\ pc # "done"

\* C4: a request whose resume_text or job_description is empty or only
\* whitespace is answered 400 and no provider or agent call is made for it.
C4_EmptyInputRejected ==
    (EmptyInput /\ pc # "idle") =>
        /\ log = <<>>
        /\ pc \in {"validate", "error"}
        /\ pc = "error" => (response.status = 400 /\ ~response.success)

\* a whitespace-only job description with a real resume has been rejected
C4_Witness ==
    /\ pc = "error"
    /\ response.status = 400
    /\ resume_text = <<"r">>
    /\ job_description = <<" ", " ">>
    /\ log = <<>>

\* C5: every result of the skill matcher has 0 <= match_percentage <= 100,
\* and match_percentage = 0 when job_skills is empty.
C5_PercentageInRange ==
    result # <<>> =>
        /\ result[1].match_percentage >= 0
        /\ result[1].match_percentage <= 100
        /\ result[1].job_skills = <<>> => result[1].match_percentage = 0

\* C12: a provider failure inside extract_skills_from_text gives the empty
\* skill list, and the fallback match still returns its result (with
\* match_percentage 0 when the job skill list is empty), not the error result.
C12_ExtractionFailureDegrades ==
    Fallback =>
        /\ arg2[1].raises => result[1].resume_skills = <<>>
        /\ arg2[2].raises => result[1].job_skills = <<>>
        /\ result[1].job_skills = <<>> => result[1].match_percentage = 0
        /\ (arg2[1].raises \/ arg2[2].raises) =>
              /\ result[1].fallback_used
              /\ ~result[1].error
              /\ result[1].summary[1] = "fallback"

\* the job extraction failed while the resume extraction found skills
C12_Witness ==
    /\ Fallback
    /\ arg2[2].raises
    /\ ~arg2[1].raises
    /\ Len(result[1].resume_skills) = 2
    /\ result[1].job_skills = <<>>
    /\ result[1].match_percentage = 0
    /\ result[1].fallback_used

\* C7: matching_skills has no duplicate entry in any result of the skill
\* matcher, whichever path produced it.
C7_NoDuplicateMatches ==
    result # <<>> => NoDuplicates(result[1].matching_skills)

\* C8: in the fallback path matching_skills is made of resume skills in their
\* resume phrasing and resume order, and a resume skill is in it exactly when
\* it is equivalent to some job skill.
C8_MatchingFromResume ==
    Fallback =>
        LET r == result[1] IN
        /\ \A i \in 1..Len(r.matching_skills) :
              InSeq(r.matching_skills[i], r.resume_skills)
        /\ IsSubsequence(r.matching_skills, r.resume_skills)
        /\ \A i \in 1..Len(r.resume_skills) :
              InSeq(r.resume_skills[i], r.matching_skills)
                  <=> Matches(r.resume_skills[i], r.job_skills)

\* a resume skill matched a job skill that is phrased differently, and
\* another resume skill matched nothing
C8_Witness ==
    /\ Fallback
    /\ result[1].resume_skills = << <<"a">>, <<"c", " ", "a", "a", "a">> >>
    /\ result[1].job_skills = << <<"a", "b">> >>
    /\ result[1].matching_skills = << <<"a">> >>

\* the positions of the job skills no resume skill is equivalent to
Unmatched(r) ==
    {k \in 1..Len(r.job_skills) :
        ~\E i \in 1..Len(r.resume_skills) :
            skills_match(r.resume_skills[i], r.job_skills[k])}

\* C9: in the fallback path missing_skills is the job skills no resume skill
\* is equivalent to, in job order, and every other job skill has an
\* equivalent resume skill in matching_skills.
C9_MissingExact ==
    Fallback =>
        LET r == result[1] IN
        /\ \E f \in [1..Len(r.missing_skills) -> 1..Len(r.job_skills)] :
              /\ {f[i] : i \in 1..Len(r.missing_skills)} = Unmatched(r)
              /\ \A i, j \in 1..Len(r.missing_skills) : i < j => f[i] < f[j]
              /\ \A i \in 1..Len(r.missing_skills) :
                    r.missing_skills[i] = r.job_skills[f[i]]
        /\ \A k \in (1..Len(r.job_skills)) \ Unmatched(r) :
              \E i \in 1..Len(r.resume_skills) :
                  /\ skills_match(r.resume_skills[i], r.job_skills[k])
                  /\ InSeq(r.resume_skills[i], r.matching_skills)

\* one job skill is covered through a shared word, the other is missing
C9_Witness ==
    /\ Fallback
    /\ result[1].resume_skills = << <<"c", " ", "a", "a", "a">> >>
    /\ result[1].job_skills = << <<"b">>, <<"a", "a", "a", " ", "b">> >>
    /\ result[1].missing_skills = << <<"b">> >>
    /\ result[1].matching_skills = << <<"c", " ", "a", "a", "a">> >>

\* C22: in a fallback result the matching and the missing skills add up to
\* the job skills: as many skills are reported matching as job skills are
\* covered, so N <= M in "Found N matching skills out of M required skills".
C22_CountsAddUp ==
    Fallback =>
        /\ Len(result[1].matching_skills) + Len(result[1].missing_skills)
              = Len(result[1].job_skills)
        /\ Len(result[1].matching_skills) <= Len(result[1].job_skills)

-----------------------------------------------------------------------------
(* The fallback matcher on the skills of the worked example: the two        *)
(* extraction responses list skills among Python, React and python,         *)
(* React.js, AWS, in any order and number.                                  *)

Python == <<"P", "y", "t", "h", "o", "n">>
React == <<"R", "e", "a", "c", "t">>
python == <<"p", "y", "t", "h", "o", "n">>
ReactJs == <<"R", "e", "a", "c", "t", ".", "j", "s">>
AWS == <<"A", "W", "S">>

ScenarioResumeItems == {Python, React, <<" ">> \o React}
ScenarioJobItems == {python, ReactJs, <<" ">> \o AWS}

ScenarioResponses(items, n) ==
    {[raises |-> FALSE, text |-> JoinComma(l)] :
        l \in UNION {[1..k -> items] : k \in 0..n}}

InitScenario ==
    /\ arg1 = [kind |-> "prose", value |-> ErrorResult]
    /\ arg2 \in ScenarioResponses(ScenarioResumeItems, MaxSkills)
                \X ScenarioResponses(ScenarioJobItems, MaxSkills + 1)
    /\ result = <<>>
    /\ Idle

SpecScenario == InitScenario /\ [][NextMatcher]_vars

\* C11: with resume skills Python, React and job skills python, React.js, AWS
\* the fallback matcher reports matching Python, React, missing AWS and a
\* match_percentage of 66 or 67.
C11_WorkedExample ==
    (Fallback /\ result[1].resume_skills = <<Python, React>>
              /\ result[1].job_skills = <<python, ReactJs, AWS>>) =>
        /\ result[1].matching_skills = <<Python, React>>
        /\ result[1].missing_skills = <<AWS>>
        /\ result[1].match_percentage \in {66, 67}

\* the worked example has been computed, and the percentage is the floor
C11_Witness ==
    /\ Fallback
    /\ result[1].resume_skills = <<Python, React>>
    /\ result[1].job_skills = <<python, ReactJs, AWS>>
    /\ result[1].match_percentage = 66

-----------------------------------------------------------------------------
(* Progress of a run.  The steps the handler takes by itself (the checks   *)
(* of lines 283-287, building a prompt and calling a runner) happen once   *)
(* they can: the event loop resumes a coroutine that is ready.  An answer  *)
(* of the provider (generate_content returning at tools.py 281-285, an     *)
(* event, the end or an exception of a stream) is the provider's doing and *)
(* nothing in the code makes it happen: no call carries a timeout.         *)

SpecLive ==
    /\ Spec
    /\ WF_vars(Validate)
    /\ WF_vars(EvaluationInvoke)
    /\ WF_vars(RatingInvoke)

\* C20: a run that has started ends, with a response or a failure, also when
\* the provider never answers.
C20_RunTerminates == (pc = "validate") ~> (pc \in {"done", "error"})

-----------------------------------------------------------------------------
(* Reading a model response: the fence extraction of tools.py 288-298 and  *)
(* 402-412, the one of utils.py 153-157, and json.loads.  Texts are over   *)
(* the characters grave accent, j s o n x 1 { } : and the blank and the double quote; on such texts JSON  *)
(* is: value = number (ones) | string (no escapes) | {} | {string: value}. *)
(* A decoded value is kept in canonical form, its text without the         *)
(* insignificant blanks, so two texts decode to equal objects exactly when *)
(* their canonical forms are equal.                                        *)

Quote == "\""
\* the grave accent of a fence; a TLA+ string cannot hold that character, so
\* the apostrophe, which no text here contains, stands for it
Backtick == "'"
Fence == <<Backtick, Backtick, Backtick>>
FenceJson == Fence \o <<"j", "s", "o", "n">>

Min(S) == CHOOSE x \in S : \A y \in S : x <= y

\* str.find(sub, start): 0-based index of the first occurrence at or after start, or -1
Find(s, sub, start) ==
    LET hits == {i \in start..(Len(s) - Len(sub)) : SubSeq(s, i + 1, i + Len(sub)) = sub}
    IN  IF hits = {} THEN 0 - 1 ELSE Min(hits)

\* s[a:b] for a >= 0; a negative b counts from the end
Slice(s, a, b) ==
    LET n == Len(s)
        hi == IF b < 0 THEN (IF n + b < 0 THEN 0 ELSE n + b) ELSE (IF b > n THEN n ELSE b)
        lo == IF a > n THEN n ELSE a
    IN  IF lo >= hi THEN <<>> ELSE SubSeq(s, lo + 1, hi)

\* str.startswith
StartsWith(s, prefix) == Len(s) >= Len(prefix) /\ SubSeq(s, 1, Len(prefix)) = prefix

\* tools.py 288-298 and 402-412: strip, then keep what lies between the
\* first fence and the next one
extract_json_block(text) ==
    LET response_text == strip(text)
    IN  IF Contains(FenceJson, response_text)
        THEN LET start == Find(response_text, FenceJson, 0) + 7
                 end == Find(response_text, Fence, start)
             IN  Slice(response_text, start, end)
        ELSE IF Contains(Fence, response_text)
        THEN LET start == Find(response_text, Fence, 0) + 3
                 end == Find(response_text, Fence, start)
             IN  Slice(response_text, start, end)
        ELSE response_text

\* utils.py 153-157: only a text that starts with a fence is cut, by counts
strip_fence_prefix(text) ==
    LET response_text == strip(text)
    IN  IF StartsWith(response_text, FenceJson) THEN Slice(response_text, 7, 0 - 3)
        ELSE IF StartsWith(response_text, Fence) THEN Slice(response_text, 3, 0 - 3)
        ELSE response_text

\* index of the first non-blank character at or after i, Len(s) + 1 if none
SkipBlanks(s, i) ==
    Min({k \in i..Len(s) : s[k] # " "} \cup {Len(s) + 1})

NoParse == [ok |-> FALSE, next |-> 0, canon |-> <<>>, is_dict |-> FALSE]

\* a JSON string starting at s[i] = Quote
ParseString(s, i) ==
    LET closing == {k \in (i + 1)..Len(s) : s[k] = Quote}
    IN  IF closing = {} THEN NoParse
        ELSE [ok |-> TRUE, next |-> Min(closing) + 1,
              canon |-> SubSeq(s, i, Min(closing)), is_dict |-> FALSE]

\* a JSON number starting at s[i] = "1"
ParseNumber(s, i) ==
    LET stop == Min({k \in i..Len(s) : s[k] # "1"} \cup {Len(s) + 1})
    IN  [ok |-> TRUE, next |-> stop, canon |-> SubSeq(s, i, stop - 1), is_dict |-> FALSE]

\* the JSON value starting at position i
RECURSIVE ParseValue(_, _)
ParseValue(s, i) ==
    IF i > Len(s) THEN NoParse
    ELSE IF s[i] = "1" THEN ParseNumber(s, i)
    ELSE IF s[i] = Quote THEN ParseString(s, i)
    ELSE IF s[i] = "{"
    THEN LET j == SkipBlanks(s, i + 1)
         IN  IF j > Len(s) THEN NoParse
             ELSE IF s[j] = "}"
             THEN [ok |-> TRUE, next |-> j + 1, canon |-> <<"{", "}">>, is_dict |-> TRUE]
             ELSE IF s[j] # Quote THEN NoParse
             ELSE LET key == ParseString(s, j)
                      colon == SkipBlanks(s, key.next)
                  IN  IF ~key.ok \/ colon > Len(s) THEN NoParse
                      ELSE IF s[colon] # ":" THEN NoParse
                      ELSE LET val == ParseValue(s, SkipBlanks(s, colon + 1))
                               brace == SkipBlanks(s, val.next)
                           IN  IF ~val.ok \/ brace > Len(s) THEN NoParse
                               ELSE IF s[brace] # "}" THEN NoParse
                               ELSE [ok |-> TRUE, next |-> brace + 1,
                                     canon |-> <<"{">> \o key.canon \o <<":">>
                                               \o val.canon \o <<"}">>,
                                     is_dict |-> TRUE]
    ELSE NoParse

\* json.loads: one value with blanks around it; ok = FALSE is JSONDecodeError
json_loads(text) ==
    LET v == ParseValue(text, SkipBlanks(text, 1))
    IN  IF v.ok /\ SkipBlanks(text, v.next) = Len(text) + 1
        THEN [ok |-> TRUE, canon |-> v.canon, is_dict |-> v.is_dict]
        ELSE [ok |-> FALSE, canon |-> <<>>, is_dict |-> FALSE]

\* what a function hands back after reading the response: the decoded JSON
\* value, a fallback dictionary, or the dictionary of an except clause
Returned(kind, is_dict, json) == [kind |-> kind, is_dict |-> is_dict, json |-> json]

\* analyze_skills_matching 287-303 and 352: which way the response goes
ReadMatchResponse(raw) ==
    IF raw.raises THEN Returned("error", TRUE, <<>>)
    ELSE LET d == json_loads(extract_json_block(raw.text))
         IN  IF d.ok THEN Returned("decoded", d.is_dict, d.canon)
             ELSE Returned("fallback", TRUE, <<>>)

\* analyze_experience_structure 402-432: the same reading, its own fallback
analyze_experience_structure(raw) ==
    IF raw.raises THEN Returned("error", TRUE, <<>>)
    ELSE LET d == json_loads(extract_json_block(raw.text))
         IN  IF d.ok THEN Returned("decoded", d.is_dict, d.canon)
             ELSE Returned("fallback", TRUE, <<>>)

\* utils.analyze_job_description 149-200: the decoded value is read with
\* .get(), which raises on a value that is not a dictionary; the outer
\* except answers then
analyze_job_description(raw) ==
    IF raw.raises THEN Returned("error", TRUE, <<>>)
    ELSE LET d == json_loads(strip_fence_prefix(raw.text))
         IN  IF ~d.ok THEN Returned("fallback", TRUE, <<>>)
             ELSE IF ~d.is_dict THEN Returned("error", TRUE, <<>>)
             ELSE Returned("success", TRUE, d.canon)

-----------------------------------------------------------------------------
(* The three functions that read a model response, each applied to a text  *)
(* J alone and to J inside a wrapper: prose before, an opening fence,      *)
(* blanks around J, a closing fence (or none), prose after.                *)

MaxPad == 1

Quoted(c) == <<Quote>> \o c \o <<Quote>>
Member(v) == <<"{">> \o Quoted(<<"s">>) \o <<":">> \o v \o <<"}">>

StringBodies == {<<"s">>, Fence, Fence \o <<"1">> \o Fence, FenceJson \o <<"1">> \o Fence}
Scalars == {<<"1">>, <<"1", "1">>} \cup {Quoted(c) : c \in StringBodies}
JsonDocs ==
    Scalars \cup {<<"{", "}">>} \cup {Member(v) : v \in Scalars}
        \cup {Member(Member(<<"1">>)), <<"{", " ">> \o Quoted(<<"s">>) \o <<" ", ":", " ", "1", " ", "}">>}
Malformed ==
    {<<>>, <<"x">>, <<"{">>, <<"1", " ", "1">>, <<"{">> \o Quoted(<<"s">>) \o <<":", "1">>,
     <<"{">> \o Quoted(<<"s">>) \o <<"}">>}
ResponseTexts == JsonDocs \cup Malformed

Blanks(n) == [i \in 1..n |-> " "]
Wrappers ==
    [prose : BOOLEAN, open : {"none", "json", "bare"}, pad : 0..MaxPad,
     close : BOOLEAN, raises : BOOLEAN]

Wrap(J, w) ==
    (IF w.prose THEN <<"x", " ">> ELSE <<>>)
    \o (CASE w.open = "json" -> FenceJson [] w.open = "bare" -> Fence [] OTHER -> <<>>)
    \o Blanks(w.pad) \o J \o Blanks(w.pad)
    \o (IF w.close THEN Fence ELSE <<>>)
    \o (IF w.prose THEN <<" ", "x">> ELSE <<>>)

\* J in a fence that opens and closes, nothing else around it
Fenced(w) == w.open # "none" /\ w.close /\ ~w.prose

Reading(fn, J, w, alone, wrapped) ==
    [fn |-> fn, alone |-> alone, wrapped |-> wrapped,
     extracted |-> IF fn = "analyze_job_description"
                   THEN strip_fence_prefix(J) ELSE extract_json_block(J)]

InitParse ==
    /\ arg1 \in ResponseTexts
    /\ arg2 \in Wrappers
    /\ result = <<>>
    /\ Idle

ApplySkillsMatching ==
    /\ result = <<>>
    /\ result' = <<Reading("analyze_skills_matching", arg1, arg2,
                           ReadMatchResponse([raises |-> arg2.raises, text |-> arg1]),
                           ReadMatchResponse([raises |-> arg2.raises, text |-> Wrap(arg1, arg2)]))>>
    /\ UNCHANGED <<arg1, arg2, pipelineVars>>

ApplyExperienceStructure ==
    /\ result = <<>>
    /\ result' = <<Reading("analyze_experience_structure", arg1, arg2,
                           analyze_experience_structure([raises |-> arg2.raises, text |-> arg1]),
                           analyze_experience_structure([raises |-> arg2.raises, text |-> Wrap(arg1, arg2)]))>>
    /\ UNCHANGED <<arg1, arg2, pipelineVars>>

ApplyJobDescription ==
    /\ result = <<>>
    /\ result' = <<Reading("analyze_job_description", arg1, arg2,
                           analyze_job_description([raises |-> arg2.raises, text |-> arg1]),
                           analyze_job_description([raises |-> arg2.raises, text |-> Wrap(arg1, arg2)]))>>
    /\ UNCHANGED <<arg1, arg2, pipelineVars>>

NextParse == ApplySkillsMatching \/ ApplyExperienceStructure \/ ApplyJobDescription

SpecParse == InitParse /\ [][NextParse]_vars

\* the result of one of the two functions of tools.py, the provider having answered
ToolRead == result # <<>> /\ ~arg2.raises /\ result[1].fn # "analyze_job_description"

\* C16: a well-formed JSON text J read alone and read inside a json fence or a
\* bare fence gives the same decoded object, the one json.loads gives for J.
C16_FenceRoundTrip ==
    (ToolRead /\ json_loads(arg1).ok /\ Fenced(arg2))
        => /\ result[1].alone = Returned("decoded", json_loads(arg1).is_dict, json_loads(arg1).canon)
           /\ result[1].wrapped = result[1].alone

\* C17: on a text that is valid JSON and stands in no fence, the fence
\* extraction changes nothing and the decoded object of json.loads is what
\* comes back, also when a string value of it holds three grave accents.
C17_PlainJsonUntouched ==
    (ToolRead /\ result[1].fn = "analyze_skills_matching" /\ json_loads(arg1).ok)
        => /\ result[1].extracted = arg1
           /\ result[1].alone = Returned("decoded", json_loads(arg1).is_dict, json_loads(arg1).canon)

\* C18: whatever the provider answers, each of the three functions returns a
\* dictionary: the decoded one, a fallback or an error payload.
C18_AlwaysDictionary ==
    result # <<>> => result[1].alone.is_dict /\ result[1].wrapped.is_dict

-----------------------------------------------------------------------------
(* What the handler of /evaluate-resume does with the text of the two      *)
(* stages.  The text a stream event carries is one of two for each stage:  *)
(* for the evaluation agent prose or a JSON object without missing_skills, *)
(* for the rating agent a recommendation whose current_text quotes the     *)
(* resume or one whose current_text is made up.                            *)

ChunkText(chunk_text) ==
    CASE chunk_text = "E1" -> <<"x">>
      [] chunk_text = "E2" -> <<"{", "}">>
      [] OTHER -> <<>>

\* evaluation_report += part.text, as one text
RECURSIVE ReportText(_)
ReportText(chunks) ==
    IF chunks = <<>> THEN <<>> ELSE ChunkText(Head(chunks)) \o ReportText(Tail(chunks))

\* paraphrasing_suggestion.current_text of the recommendation in a rating event
CurrentText(chunk_text) == IF chunk_text = "R1" THEN <<"r">> ELSE <<"q">>

Returned200 == pc = "done" /\ response.status = 200

\* C13: the evaluation agent answers prose that is no JSON; the run still
\* calls the rating agent with that text in the prompt, and the response has
\* structured_evaluation = {raw_text: the prose}.
C13_ProseMarkedRawText ==
    (Returned200 /\ evaluation_report # <<>> /\ ~json_loads(ReportText(evaluation_report)).ok)
        => /\ rating_prompt # <<>>
           /\ rating_prompt[1] = evaluation_report
           /\ "structured_evaluation" \in DOMAIN response
           /\ response.structured_evaluation = [raw_text |-> evaluation_report]

\* C14: the evaluation agent answers a JSON object without missing_skills;
\* the evaluation in the response has the missing_skills of the skill match.
C14_MissingSkillsBackfilled ==
    (Returned200 /\ json_loads(ReportText(evaluation_report)).is_dict)
        => /\ "structured_evaluation" \in DOMAIN response
           /\ response.structured_evaluation.missing_skills = skills_analysis.missing_skills

\* C15: every recommendation of the rating agent is returned, flagged exactly
\* when its current_text is not a literal substring of resume_text.
C15_FabricatedQuoteFlagged ==
    Returned200 =>
        /\ response.rating_and_generation = rating_results
        /\ \A i \in 1..Len(rating_results) :
              ("flagged" \in DOMAIN response /\ response.flagged[i])
                  <=> ~Contains(CurrentText(rating_results[i]), resume_text)

-----------------------------------------------------------------------------
(* Several /evaluate-resume requests in flight.  app.py 23-31 and 59-61:   *)
(* there is one InMemorySessionService, one session (USER_ID, SESSION_ID)  *)
(* created at startup, and both runners are built on it.  run_async of the *)
(* ADK Runner appends new_message to that session, gives the agent the     *)
(* contents of the session as the model input, and appends the events the  *)
(* agent yields.  The handler is a coroutine: requests interleave at the   *)
(* awaits of the two streams.  arg1 is each run's position, arg2 the       *)
(* session, result what the provider was given for each run's two calls.   *)

MaxRuns == 2

Runs == 1..MaxRuns

\* the runs are for different resume/job pairs
RunResume(r) == [i \in 1..r |-> "r"]
RunJob(r) == [i \in 1..r |-> "j"]

Content(role, stage, rt, jd, text) ==
    [role |-> role, stage |-> stage, resume_text |-> rt, job_description |-> jd,
     text |-> text]

\* types.Content(role="user", parts=[types.Part(text=evaluation_prompt)])
evaluation_content(r) == Content("user", "evaluation", RunResume(r), RunJob(r), <<>>)
rating_content(r) == Content("user", "rating", RunResume(r), RunJob(r), <<>>)

\* the event an agent yields
ModelEvent(stage, chunk_text) == Content("model", stage, <<>>, <<>>, <<chunk_text>>)

InitSession ==
    /\ arg1 = [r \in Runs |-> "evaluation"]
    /\ arg2 = <<>>
    /\ result = [r \in Runs |-> [evaluation_input |-> <<>>, rating_input |-> <<>>]]
    /\ Idle

\* lines 322-330: evaluation_runner.run_async(USER_ID, SESSION_ID, new_message)
EvaluationRunAsync(r) ==
    /\ arg1[r] = "evaluation"
    /\ arg2' = Append(arg2, evaluation_content(r))
    /\ result' = [result EXCEPT ![r].evaluation_input = arg2']
    /\ arg1' = [arg1 EXCEPT ![r] = "evaluation_stream"]
    /\ UNCHANGED pipelineVars

\* lines 328-335: the agent's answer arrives and is kept in the session
EvaluationAnswer(r) ==
    /\ arg1[r] = "evaluation_stream"
    /\ arg2' = Append(arg2, ModelEvent("evaluation", "E1"))
    /\ arg1' = [arg1 EXCEPT ![r] = "rating"]
    /\ UNCHANGED <<result, pipelineVars>>

\* lines 376-386: rating_runner.run_async(USER_ID, SESSION_ID, new_message)
RatingRunAsync(r) ==
    /\ arg1[r] = "rating"
    /\ arg2' = Append(arg2, rating_content(r))
    /\ result' = [result EXCEPT ![r].rating_input = arg2']
    /\ arg1' = [arg1 EXCEPT ![r] = "rating_stream"]
    /\ UNCHANGED pipelineVars

\* lines 384-391, 406: the answer arrives, the handler returns
RatingAnswer(r) ==
    /\ arg1[r] = "rating_stream"
    /\ arg2' = Append(arg2, ModelEvent("rating", "R1"))
    /\ arg1' = [arg1 EXCEPT ![r] = "done"]
    /\ UNCHANGED <<result, pipelineVars>>

NextSession ==
    \E r \in Runs :
        \/ EvaluationRunAsync(r)
        \/ EvaluationAnswer(r)
        \/ RatingRunAsync(r)
        \/ RatingAnswer(r)

SpecSession == InitSession /\ [][NextSession]_vars

\* every request text in a model input is the run's own
OwnRequestOnly(r, input) ==
    \A i \in 1..Len(input) :
        input[i].role = "user"
            => /\ input[i].resume_text = RunResume(r)
               /\ input[i].job_description = RunJob(r)

\* C19: what the provider is given for a run's evaluation and rating calls
\* holds the resume_text and job_description of that run only, whatever
\* other runs came before or are in flight.
C19_RunsIndependent ==
    \A r \in Runs :
        /\ OwnRequestOnly(r, result[r].evaluation_input)
        /\ OwnRequestOnly(r, result[r].rating_input)

-----------------------------------------------------------------------------
(* calculate_match_percentage as a function of two skill lists; only the   *)
(* lengths of the lists matter to it, so the lists are k distinct skills.  *)
(* The lists are those of a result in which no two resume skills cover the *)
(* same job skill: at most as many matching skills as job skills.          *)

SkillList(k) == [i \in 1..k |-> <<"s", i>>]

InitPct ==
    /\ arg1 \in {SkillList(k) : k \in 0..MaxCount}
    /\ arg2 \in {SkillList(k) : k \in 0..MaxCount}
    /\ Len(arg1) <= Len(arg2)
    /\ result = <<>>
    /\ Idle

ApplyPct ==
    /\ result = <<>>
    /\ result' = <<calculate_match_percentage(arg1, arg2)>>
    /\ UNCHANGED <<arg1, arg2>>
    /\ UNCHANGED pipelineVars

NextPct == ApplyPct

SpecPct == InitPct /\ [][NextPct]_vars

\* C6: in the fallback path match_percentage is 100 * |matching_skills| /
\* |job_skills| floored to an integer, and 0 for an empty job_skills.
C6_FlooredPercentage ==
    result # <<>> =>
        result[1] = IF arg2 = <<>> THEN 0
                    ELSE (100 * Len(arg1)) \div Len(arg2)

-----------------------------------------------------------------------------
(* skills_match as a function of two arbitrary strings *)

InitSym ==
    /\ arg1 \in Strings(MaxLen)
    /\ arg2 \in Strings(MaxLen)
    /\ result = <<>>
    /\ Idle

ApplySkillsMatch ==
    /\ result = <<>>
    /\ result' = <<skills_match(arg1, arg2), skills_match(arg2, arg1)>>
    /\ UNCHANGED <<arg1, arg2>>
    /\ UNCHANGED pipelineVars

NextSym == ApplySkillsMatch

SpecSym == InitSym /\ [][NextSym]_vars

\* C10: skills_match is symmetric: skills_match(a, b) = skills_match(b, a)
\* for all strings a and b.
C10_Symmetric ==
    result # <<>> => result[1] = result[2]

\* two different phrases that match only through a shared significant word
C10_Witness ==
    /\ result # <<>>
    /\ result[1] /\ result[2]
    /\ lower(strip(arg1)) # lower(strip(arg2))
    /\ ~Contains(strip(lower(arg1)), strip(lower(arg2)))
    /\ ~Contains(strip(lower(arg2)), strip(lower(arg1)))

-----------------------------------------------------------------------------
(* app.py: the store resume_analyses (line 37) and the endpoints that use  *)
(* it.  arg1 is resume_analyses, a function from analysis ids to entries;  *)
(* arg2 the request being served; result the response, with the number of  *)
(* provider and agent calls the handler made.  uuid.uuid4() gives an id    *)
(* that is not in use.                                                     *)

MaxIds == 3

AnalysisIds == 1..MaxIds

allowed_types ==
    {"application/pdf", "application/msword",
     "application/vnd.openxmlformats-officedocument.wordprocessingml.document", "text/plain"}
ContentTypes == {"text/plain", "application/pdf", "image/png"}
Filenames == {<<"a", ".", "t", "x", "t">>, <<"a", ".", "p", "d", "f">>, <<"a">>}
FileContents == {<<>>, <<"r">>}

\* line 107: file.filename.split('.')[-1].lower() if '.' in file.filename else 'pdf'
FileExtension(filename) ==
    IF Contains(<<".">>, filename)
    THEN LET parts == SplitOn(filename, ".", <<>>) IN lower(parts[Len(parts)])
    ELSE <<"p", "d", "f">>

\* utils.analyze_resume_file 24-79: only txt is read; the provider is called
\* for txt and an exception becomes success False
analyze_resume_file(file_content, file_type, provider_ok) ==
    IF lower(file_type) # <<"t", "x", "t">>
    THEN [success |-> FALSE, analysis |-> <<>>, calls |-> 0]
    ELSE IF ~provider_ok THEN [success |-> FALSE, analysis |-> <<>>, calls |-> 1]
    ELSE [success |-> TRUE, analysis |-> <<"analysis">> \o file_content, calls |-> 1]

StoreRequest(endpoint, analysis_id, filename, content_type) ==
    [endpoint |-> endpoint, analysis_id |-> analysis_id, filename |-> filename,
     content_type |-> content_type]

StoreResponse(status, analysis_id, data, calls) ==
    [status |-> status, success |-> status = 200, analysis_id |-> analysis_id,
     data |-> data, calls |-> calls]

StoreEntry(analysis, filename, content, content_type) ==
    [analysis |-> analysis, filename |-> filename, file_size |-> Len(content),
     file_type |-> content_type]

InitStore ==
    /\ arg1 = [i \in {} |-> 0]
    /\ arg2 = StoreRequest("none", 0, <<>>, "")
    /\ result = <<>>
    /\ Idle

\* lines 90-135 with the entry stored before the result of the analysis is looked at
upload_resume_storefirst ==
    \E filename \in Filenames, content_type \in ContentTypes, content \in FileContents,
       provider_ok \in BOOLEAN, analysis_id \in AnalysisIds \ DOMAIN arg1 :
        LET analysis_result == analyze_resume_file(content, FileExtension(filename), provider_ok)
        IN  /\ arg2' = StoreRequest("upload-resume", 0, filename, content_type)
            /\ IF content_type \notin allowed_types
               THEN /\ result' = <<StoreResponse(400, 0, <<>>, 0)>>
                    /\ UNCHANGED arg1
               ELSE /\ arg1' = [i \in DOMAIN arg1 \cup {analysis_id} |->
                                  IF i = analysis_id
                                  THEN StoreEntry(analysis_result.analysis, filename,
                                                  content, content_type)
                                  ELSE arg1[i]]
                    /\ result' = IF analysis_result.success
                                 THEN <<StoreResponse(200, analysis_id, <<>>, analysis_result.calls)>>
                                 ELSE <<StoreResponse(500, 0, <<>>, analysis_result.calls)>>
            /\ UNCHANGED pipelineVars

\* lines 84-135
upload_resume ==
    \E filename \in Filenames, content_type \in ContentTypes, content \in FileContents,
       provider_ok \in BOOLEAN, analysis_id \in AnalysisIds \ DOMAIN arg1 :
        LET analysis_result == analyze_resume_file(content, FileExtension(filename), provider_ok)
        IN  /\ arg2' = StoreRequest("upload-resume", 0, filename, content_type)
            /\ IF content_type \notin allowed_types
               THEN /\ result' = <<StoreResponse(400, 0, <<>>, 0)>>
                    /\ UNCHANGED arg1
               ELSE IF ~analysis_result.success
               THEN /\ result' = <<StoreResponse(500, 0, <<>>, analysis_result.calls)>>
                    /\ UNCHANGED arg1
               ELSE /\ arg1' = [i \in DOMAIN arg1 \cup {analysis_id} |->
                                  IF i = analysis_id
                                  THEN StoreEntry(analysis_result.analysis, filename,
                                                  content, content_type)
                                  ELSE arg1[i]]
                    /\ result' = <<StoreResponse(200, analysis_id, <<>>, analysis_result.calls)>>
            /\ UNCHANGED pipelineVars

\* lines 202-214
get_resume_analysis ==
    \E analysis_id \in AnalysisIds :
        /\ arg2' = StoreRequest("resume-analysis", analysis_id, <<>>, "")
        /\ result' = IF analysis_id \notin DOMAIN arg1
                     THEN <<StoreResponse(404, analysis_id, <<>>, 0)>>
                     ELSE <<StoreResponse(200, analysis_id, <<arg1[analysis_id]>>, 0)>>
        /\ UNCHANGED <<arg1, pipelineVars>>

\* lines 163-200: analyze_job_description, then compare_resume_to_job, each
\* one provider call; a result without success is answered with 500
compare_resume_job_endpoint ==
    \E analysis_id \in AnalysisIds, job_ok \in BOOLEAN, comparison_ok \in BOOLEAN :
        /\ arg2' = StoreRequest("compare-resume-job", analysis_id, <<>>, "")
        /\ result' = IF analysis_id \notin DOMAIN arg1
                     THEN <<StoreResponse(404, analysis_id, <<>>, 0)>>
                     ELSE IF ~job_ok
                     THEN <<StoreResponse(500, analysis_id, <<arg1[analysis_id]>>, 1)>>
                     ELSE IF ~comparison_ok
                     THEN <<StoreResponse(500, analysis_id, <<arg1[analysis_id]>>, 2)>>
                     ELSE <<StoreResponse(200, analysis_id, <<arg1[analysis_id]>>, 2)>>
        /\ UNCHANGED <<arg1, pipelineVars>>

\* lines 216-273: one call of evaluation_runner; an exception is answered with 500
optimize_resume_with_agent ==
    \E analysis_id \in AnalysisIds, agent_ok \in BOOLEAN :
        /\ arg2' = StoreRequest("optimize-resume", analysis_id, <<>>, "")
        /\ result' = IF analysis_id \notin DOMAIN arg1
                     THEN <<StoreResponse(404, analysis_id, <<>>, 0)>>
                     ELSE <<StoreResponse(IF agent_ok THEN 200 ELSE 500, analysis_id,
                                          <<arg1[analysis_id]>>, 1)>>
        /\ UNCHANGED <<arg1, pipelineVars>>

\* lines 419-470 with the rating agent called before the id is looked up
quick_resume_rating_callfirst ==
    \E analysis_id \in AnalysisIds, agent_ok \in BOOLEAN :
        /\ arg2' = StoreRequest("quick-resume-rating", analysis_id, <<>>, "")
        /\ result' = IF ~agent_ok
                     THEN <<StoreResponse(500, analysis_id, <<>>, 1)>>
                     ELSE IF analysis_id \notin DOMAIN arg1
                     THEN <<StoreResponse(404, analysis_id, <<>>, 1)>>
                     ELSE <<StoreResponse(200, analysis_id, <<arg1[analysis_id]>>, 1)>>
        /\ UNCHANGED <<arg1, pipelineVars>>

\* lines 419-470: one call of rating_runner
quick_resume_rating ==
    \E analysis_id \in AnalysisIds, agent_ok \in BOOLEAN :
        /\ arg2' = StoreRequest("quick-resume-rating", analysis_id, <<>>, "")
        /\ result' = IF analysis_id \notin DOMAIN arg1
                     THEN <<StoreResponse(404, analysis_id, <<>>, 0)>>
                     ELSE <<StoreResponse(IF agent_ok THEN 200 ELSE 500, analysis_id,
                                          <<arg1[analysis_id]>>, 1)>>
        /\ UNCHANGED <<arg1, pipelineVars>>

NextStore ==
    \/ upload_resume
    \/ get_resume_analysis
    \/ compare_resume_job_endpoint
    \/ optimize_resume_with_agent
    \/ quick_resume_rating

SpecStore == InitStore /\ [][NextStore]_vars

LookupEndpoints ==
    {"resume-analysis", "compare-resume-job", "optimize-resume", "quick-resume-rating"}

C26_UnknownIdAndFrame ==
    [][ /\ (arg2'.endpoint \in LookupEndpoints /\ arg2'.analysis_id \notin DOMAIN arg1)
            => /\ result'[1].status = 404
               /\ result'[1].calls = 0
               /\ arg1' = arg1
        /\ \A i \in DOMAIN arg1 : i \in DOMAIN arg1' /\ arg1'[i] = arg1[i]
      ]_vars

\* an unknown id was asked of the quick rating while another resume is stored
C26_Witness ==
    /\ result # <<>>
    /\ arg2.endpoint = "quick-resume-rating"
    /\ result[1].status = 404
    /\ DOMAIN arg1 # {}

-----------------------------------------------------------------------------
(* api/index.py: the Vercel entry point.  AI_ENABLED is fixed when the     *)
(* module is imported (lines 60-82).  arg1 is the request being served,    *)
(* arg2 is AI_ENABLED, result the response with the number of runner calls *)
(* the handler made.  A text is words of one letter with blanks between.   *)

MaxWordCount == 12

Vocabulary ==
    <<"a", "b", "c", "d", "e", "f", "g", "h", "i", "j", "k", "l", "m", "n", "o", "p">>

\* the first k words of the vocabulary, one blank between two words
WordsText(k) ==
    [i \in 1..(IF k = 0 THEN 0 ELSE 2 * k - 1) |->
        IF i % 2 = 1 THEN Vocabulary[(i + 1) \div 2] ELSE " "]

VercelTexts == {WordsText(k) : k \in 0..MaxWordCount} \cup {<<" ">>, <<"A">>, <<"a", " ", "a">>}

UploadNames ==
    {<<"a", ".", "p", "d", "f">>, <<"a", ".", "P", "D", "F">>, <<"a", ".", "d", "o", "c", "x">>,
     <<"a", ".", "t", "x", "t">>, <<"a", ".", "p", "n", "g">>, <<"p", "d", "f">>}

\* str.endswith
EndsWith(s, suffix) ==
    Len(s) >= Len(suffix) /\ SubSeq(s, Len(s) - Len(suffix) + 1, Len(s)) = suffix

\* str.split() with no argument, as a set: set(text.lower().split())
Words(text) == Range(split(lower(text)))

Max(a, b) == IF a >= b THEN a ELSE b

\* line 151: min(100, (len(matching_keywords) / max(len(job_words), 10)) * 100)
match_percentage(matching_keywords, job_words) ==
    LET x == FloatMul(FloatDiv(Cardinality(matching_keywords),
                               Max(Cardinality(job_words), 10)), 100)
    IN  IF FloatToInt(x) >= 100 THEN FloatDiv(100, 1) ELSE x

VercelRequest(endpoint, rt, jd, filename) ==
    [endpoint |-> endpoint, resume_text |-> rt, job_description |-> jd,
     filename |-> filename]

VercelResponse(status, success, calls, branch, overall, pct, skills) ==
    [status |-> status, success |-> success, calls |-> calls, branch |-> branch,
     overall_score |-> overall, job_match_percentage |-> pct,
     content_quality |-> 7, skills_match |-> skills, experience_relevance |-> 6,
     ats_compatibility |-> 7]

InitVercel ==
    /\ arg1 = VercelRequest("none", <<>>, <<>>, <<>>)
    /\ arg2 \in BOOLEAN
    /\ result = <<>>
    /\ Idle

\* lines 86-87 and 193-195
root ==
    /\ arg1' = VercelRequest("root", <<>>, <<>>, <<>>)
    /\ result' = <<VercelResponse(200, TRUE, 0, "none", 0, 0, 0)>>
    /\ UNCHANGED <<arg2, pipelineVars>>

\* lines 89-113: the HTTPException raised for an unsupported name or by the
\* PDF and DOCX readers is an Exception, and the except clause of the handler
\* catches it and returns a body
index_upload_resume ==
    \E filename \in UploadNames, readable \in BOOLEAN :
        LET name == lower(filename)
            supported == \/ EndsWith(name, <<".", "p", "d", "f">>)
                         \/ EndsWith(name, <<".", "d", "o", "c", "x">>)
                         \/ EndsWith(name, <<".", "t", "x", "t">>)
        IN  /\ arg1' = VercelRequest("upload-resume", <<>>, <<>>, filename)
            /\ result' = <<VercelResponse(200, supported /\ readable, 0,
                                          IF ~supported THEN "unsupported"
                                          ELSE IF ~readable THEN "unreadable" ELSE "read",
                                          0, 0, 0)>>
            /\ UNCHANGED <<arg2, pipelineVars>>

\* lines 115-191: with AI_ENABLED the evaluation runner is called, then the
\* rating runner, and an exception of either becomes HTTPException(500);
\* without it the words of the two texts are compared
index_evaluate_resume ==
    \E rt \in VercelTexts, jd \in VercelTexts,
       evaluation_ok \in (IF arg2 THEN BOOLEAN ELSE {TRUE}),
       rating_ok \in (IF arg2 THEN BOOLEAN ELSE {TRUE}) :
        /\ arg1' = VercelRequest("evaluate-resume", rt, jd, <<>>)
        /\ result' =
             IF arg2
             THEN IF ~evaluation_ok THEN <<VercelResponse(500, FALSE, 1, "ai", 0, 0, 0)>>
                  ELSE IF ~rating_ok THEN <<VercelResponse(500, FALSE, 2, "ai", 0, 0, 0)>>
                  ELSE <<VercelResponse(200, TRUE, 2, "ai", 0, 0, 0)>>
             ELSE LET resume_words == Words(rt)
                      job_words == Words(jd)
                      matching_keywords == resume_words \cap job_words
                      mp == match_percentage(matching_keywords, job_words)
                      tenth == FloatToInt(FloatDivInt(mp, 10))
                  IN  <<VercelResponse(200, TRUE, 0, "keywords",
                                       IF Max(1, tenth) <= 10 THEN Max(1, tenth) ELSE 10,
                                       FloatToInt(mp), tenth)>>
        /\ UNCHANGED <<arg2, pipelineVars>>

NextVercel == root \/ index_upload_resume \/ index_evaluate_resume

SpecVercel == InitVercel /\ [][NextVercel]_vars

Evaluated == result # <<>> /\ arg1.endpoint = "evaluate-resume"

\* C23: a request to evaluate_resume with an empty resume_text or an empty
\* job_description is answered with a client error, with no runner called,
\* and never with success, with AI_ENABLED and without.
C23_VercelEmptyRejected ==
    (Evaluated /\ (arg1.resume_text = <<>> \/ arg1.job_description = <<>>))
        => /\ result[1].status \in 400..499
           /\ ~result[1].success
           /\ result[1].calls = 0

\* C24: without AI_ENABLED every score of the response is between 1 and 10
\* and job_match_percentage is between 0 and 100.
C24_KeywordScoresInRange ==
    (Evaluated /\ result[1].branch = "keywords")
        => /\ result[1].overall_score \in 1..10
           /\ result[1].content_quality \in 1..10
           /\ result[1].skills_match \in 1..10
           /\ result[1].experience_relevance \in 1..10
           /\ result[1].ats_compatibility \in 1..10
           /\ result[1].job_match_percentage \in 0..100

\* C25: an upload with an unsupported extension, or with PDF or DOCX content
\* that cannot be read, is answered with HTTP 400.
C25_UploadErrorIs400 ==
    (result # <<>> /\ arg1.endpoint = "upload-resume"
        /\ result[1].branch \in {"unsupported", "unreadable"})
        => result[1].status = 400

-----------------------------------------------------------------------------
(* app.py: the thread store threads (line 34) and the endpoints of lines   *)
(* 474-640.  The handlers are coroutines: a run gives way to other         *)
(* requests while it waits for the agent.  arg1 is threads, a function     *)
(* from thread ids to message lists; arg2 the runs, each with its request  *)
(* and its position; result whether each run's request was answered.  A   *)
(* message carries the run it belongs to as its id.                        *)

MaxThreads == 2

ThreadIds == 1..MaxThreads

Message(type, content, id) == [type |-> type, content |-> content, id |-> id]

\* body["input"]["messages"] of run r
InputMessages(r) ==
    { <<>>,
      <<Message("human", "input", r)>>,
      <<Message("ai", "input", r), Message("human", "input", r)>>,
      <<Message("human", "input", r), Message("ai", "input", r)>> }

NoRun == [pc |-> "idle", endpoint |-> "none", thread_id |-> 0, messages |-> <<>>,
          outcome |-> "none"]

\* "if messages: last_message = messages[-1]; if last_message.get('type') == 'human'"
LastIsHuman(messages) == messages # <<>> /\ messages[Len(messages)].type = "human"

\* "if thread_id not in threads: threads[thread_id] = []"
WithThread(store, thread_id) ==
    [t \in DOMAIN store \cup {thread_id} |-> IF t \in DOMAIN store THEN store[t] ELSE <<>>]

Extended(store, thread_id, msgs) == [store EXCEPT ![thread_id] = store[thread_id] \o msgs]

InitThreads ==
    /\ arg1 = [t \in {} |-> <<>>]
    /\ arg2 = [r \in Runs |-> NoRun]
    /\ result = [returned |-> [r \in Runs |-> FALSE]]
    /\ Idle

\* lines 474-480: uuid4 gives an id not in use
create_thread ==
    \E thread_id \in ThreadIds \ DOMAIN arg1 :
        /\ arg1' = WithThread(arg1, thread_id)
        /\ UNCHANGED <<arg2, result, pipelineVars>>

\* lines 483-497: the thread is created if unknown, the body is read; without
\* a last human message the handler returns at once (526-527)
create_run ==
    \E r \in Runs, thread_id \in ThreadIds :
    \E messages \in InputMessages(r) :
        /\ arg2[r].pc = "idle"
        /\ arg1' = WithThread(arg1, thread_id)
        /\ IF LastIsHuman(messages)
           THEN /\ arg2' = [arg2 EXCEPT ![r] = [pc |-> "agent", endpoint |-> "runs",
                                                  thread_id |-> thread_id,
                                                  messages |-> messages, outcome |-> "none"]]
                /\ UNCHANGED result
           ELSE /\ arg2' = [arg2 EXCEPT ![r] = [pc |-> "done", endpoint |-> "runs",
                                                  thread_id |-> thread_id,
                                                  messages |-> messages, outcome |-> "skipped"]]
                /\ result' = [result EXCEPT !.returned[r] = TRUE]
        /\ UNCHANGED pipelineVars

\* lines 497-527 with the input messages recorded before the agent is called
create_run_agent_extendfirst ==
    \E r \in Runs, agent_ok \in BOOLEAN :
        /\ arg2[r].pc = "agent" /\ arg2[r].endpoint = "runs"
        /\ arg1' = Extended(arg1, arg2[r].thread_id,
                            arg2[r].messages
                            \o <<Message("ai", IF agent_ok THEN "reply" ELSE "error", r)>>)
        /\ arg2' = [arg2 EXCEPT ![r].pc = "done",
                                ![r].outcome = IF agent_ok THEN "ok" ELSE "raise"]
        /\ result' = [result EXCEPT !.returned[r] = TRUE]
        /\ UNCHANGED pipelineVars

\* lines 497-527: the agent has answered, the messages and the AI message are
\* recorded; or it has raised, and only the error message is
create_run_agent ==
    \E r \in Runs, agent_ok \in BOOLEAN :
        /\ arg2[r].pc = "agent" /\ arg2[r].endpoint = "runs"
        /\ arg1' = IF agent_ok
                   THEN Extended(arg1, arg2[r].thread_id,
                                 arg2[r].messages \o <<Message("ai", "reply", r)>>)
                   ELSE Extended(arg1, arg2[r].thread_id, <<Message("ai", "error", r)>>)
        /\ arg2' = [arg2 EXCEPT ![r].pc = "done",
                                ![r].outcome = IF agent_ok THEN "ok" ELSE "raise"]
        /\ result' = [result EXCEPT !.returned[r] = TRUE]
        /\ UNCHANGED pipelineVars

\* lines 530-540 and 592: the thread is created if unknown, the body is read,
\* the StreamingResponse is returned; generate_stream has not run yet
create_run_stream ==
    \E r \in Runs, thread_id \in ThreadIds :
    \E messages \in InputMessages(r) :
        /\ arg2[r].pc = "idle"
        /\ arg1' = WithThread(arg1, thread_id)
        /\ arg2' = [arg2 EXCEPT ![r] = [pc |-> "stream", endpoint |-> "stream",
                                          thread_id |-> thread_id,
                                          messages |-> messages, outcome |-> "none"]]
        /\ result' = [result EXCEPT !.returned[r] = TRUE]
        /\ UNCHANGED pipelineVars

\* lines 542-556: generate_stream records the input messages, then calls the agent
generate_stream_start ==
    \E r \in Runs :
        /\ arg2[r].pc = "stream"
        /\ IF LastIsHuman(arg2[r].messages)
           THEN /\ arg1' = Extended(arg1, arg2[r].thread_id, arg2[r].messages)
                /\ arg2' = [arg2 EXCEPT ![r].pc = "stream_agent"]
           ELSE /\ arg2' = [arg2 EXCEPT ![r].pc = "done", ![r].outcome = "skipped"]
                /\ UNCHANGED arg1
        /\ UNCHANGED <<result, pipelineVars>>

\* lines 553-590: the agent has answered or raised; the AI message or the
\* error message is recorded
generate_stream_agent ==
    \E r \in Runs, agent_ok \in BOOLEAN :
        /\ arg2[r].pc = "stream_agent"
        /\ arg1' = Extended(arg1, arg2[r].thread_id,
                            <<Message("ai", IF agent_ok THEN "reply" ELSE "error", r)>>)
        /\ arg2' = [arg2 EXCEPT ![r].pc = "done",
                                ![r].outcome = IF agent_ok THEN "ok" ELSE "raise"]
        /\ UNCHANGED <<result, pipelineVars>>

NextThreads ==
    \/ create_thread
    \/ create_run
    \/ create_run_agent
    \/ create_run_stream
    \/ generate_stream_start
    \/ generate_stream_agent

SpecThreads == InitThreads /\ [][NextThreads]_vars

OtherThreadsKept(thread_id) ==
    \A t \in DOMAIN arg1 : t # thread_id => t \in DOMAIN arg1' /\ arg1'[t] = arg1[t]

\* the content of a thread before a run touched it: empty if it was unknown
Prior(thread_id) == IF thread_id \in DOMAIN arg1 THEN arg1[thread_id] ELSE <<>>

\* C27: create_run on a thread with content T and input messages M leaves
\* T ++ M ++ [ai message] if the agent answers, T ++ [ai error message] if it
\* raises, and a run id is returned then too; T if M is empty or does not end
\* with a human message; an unknown thread is created empty; no other thread
\* changes.
C27_CreateRunEffect ==
    [][ \A r \in Runs :
          /\ (arg2[r].pc = "idle" /\ arg2'[r].endpoint = "runs")
                => /\ arg2'[r].thread_id \in DOMAIN arg1'
                   /\ arg1'[arg2'[r].thread_id] = Prior(arg2'[r].thread_id)
                   /\ OtherThreadsKept(arg2'[r].thread_id)
                   /\ ~LastIsHuman(arg2'[r].messages)
                         => arg2'[r].pc = "done" /\ result'.returned[r]
          /\ (arg2[r].endpoint = "runs" /\ arg2[r].pc = "agent" /\ arg2'[r].pc = "done")
                => /\ result'.returned[r]
                   /\ OtherThreadsKept(arg2[r].thread_id)
                   /\ arg2'[r].outcome = "ok"
                         => arg1'[arg2[r].thread_id]
                              = arg1[arg2[r].thread_id] \o arg2[r].messages
                                   \o <<Message("ai", "reply", r)>>
                   /\ arg2'[r].outcome = "raise"
                         => arg1'[arg2[r].thread_id]
                              = Append(arg1[arg2[r].thread_id], Message("ai", "error", r))
      ]_vars

\* a thread that had content before holds a failed run's error message and,
\* behind it, the messages and the answer of a run that succeeded
C27_Witness ==
    \E r1 \in Runs, r2 \in Runs :
        /\ arg2[r1].endpoint = "runs" /\ arg2[r1].outcome = "raise"
        /\ arg2[r2].endpoint = "runs" /\ arg2[r2].outcome = "ok"
        /\ arg2[r1].thread_id = arg2[r2].thread_id
        /\ arg1[arg2[r1].thread_id]
              = <<Message("ai", "error", r1)>> \o arg2[r2].messages
                   \o <<Message("ai", "reply", r2)>>

\* the AI messages that streaming runs produced stand right behind the input
\* messages of their run
StreamRepliesFollowInput ==
    \A t \in DOMAIN arg1 : \A i \in 1..Len(arg1[t]) :
        LET m == arg1[t][i]
        IN  (m.type = "ai" /\ m.content # "input" /\ arg2[m.id].endpoint = "stream")
               => LET M == arg2[m.id].messages
                  IN  /\ i > Len(M)
                      /\ SubSeq(arg1[t], i - Len(M), i - 1) = M

\* C28: with runs of create_run_stream interleaved on one thread, every AI
\* message stands right behind the input messages of its run, and a thread
\* only grows at its end.
C28_StreamRepliesContiguous ==
    [][ (\A r \in Runs : arg2'[r].endpoint \in {"none", "stream"})
           => /\ \A t \in DOMAIN arg1 : t \in DOMAIN arg1' /\ IsPrefix(arg1[t], arg1'[t])
              /\ StreamRepliesFollowInput'
      ]_vars

-----------------------------------------------------------------------------
(* user_service.py: UserService.create_user.  Every call runs in the       *)
(* database session of its request (database.get_db), and each await of    *)
(* the method is a point where another call can run.  arg1 is the users    *)
(* table, a function from ids to rows; arg2 the calls; result says whether *)
(* the table declares email and username unique: the User model            *)
(* (agent/models.py) is not part of the sources, so both are possible.     *)

MaxCalls == 2

Calls == 1..MaxCalls

Emails == {"e1", "e2"}
Usernames == {"u1", "u2"}

\* auth.get_password_hash: the bcrypt hash of the password
get_password_hash(password) == <<"bcrypt", password>>

User(email, username, hashed_password) ==
    [email |-> email, username |-> username, hashed_password |-> hashed_password,
     is_active |-> TRUE, is_verified |-> FALSE]

\* select(User).filter(User.email == email), scalar_one_or_none: is there a row
get_user_by_email(users, email) == \E i \in DOMAIN users : users[i].email = email
get_user_by_username(users, username) == \E i \in DOMAIN users : users[i].username = username

NoCall == [pc |-> "idle", email |-> "", username |-> "", password |-> "", outcome |-> "none"]

\* db.add(user); db.flush(): the row gets the next id
Inserted(users, row) ==
    [i \in DOMAIN users \cup {Cardinality(DOMAIN users) + 1} |->
        IF i \in DOMAIN users THEN users[i] ELSE row]

InitUsers ==
    /\ arg1 = [i \in {} |-> 0]
    /\ arg2 = [c \in Calls |-> NoCall]
    /\ result \in [unique : BOOLEAN]
    /\ Idle

\* a call of create_user(db, user_create) starts
create_user ==
    \E c \in Calls, email \in Emails, username \in Usernames :
        /\ arg2[c].pc = "idle"
        /\ arg2' = [arg2 EXCEPT ![c] = [pc |-> "check_email", email |-> email,
                                          username |-> username, password |-> "p1",
                                          outcome |-> "none"]]
        /\ UNCHANGED <<arg1, result, pipelineVars>>

\* lines 18-20
create_user_check_email ==
    \E c \in Calls :
        /\ arg2[c].pc = "check_email"
        /\ arg2' = IF get_user_by_email(arg1, arg2[c].email)
                   THEN [arg2 EXCEPT ![c].pc = "done", ![c].outcome = "ValueError"]
                   ELSE [arg2 EXCEPT ![c].pc = "check_username"]
        /\ UNCHANGED <<arg1, result, pipelineVars>>

\* lines 22-24
create_user_check_username ==
    \E c \in Calls :
        /\ arg2[c].pc = "check_username"
        /\ arg2' = IF get_user_by_username(arg1, arg2[c].username)
                   THEN [arg2 EXCEPT ![c].pc = "done", ![c].outcome = "ValueError"]
                   ELSE [arg2 EXCEPT ![c].pc = "add"]
        /\ UNCHANGED <<arg1, result, pipelineVars>>

\* lines 27-40: the row is built and flushed; a table that declares the
\* columns unique refuses a second row with an IntegrityError
create_user_add ==
    \E c \in Calls :
        /\ arg2[c].pc = "add"
        /\ IF result.unique /\ (get_user_by_email(arg1, arg2[c].email)
                                \/ get_user_by_username(arg1, arg2[c].username))
           THEN /\ arg2' = [arg2 EXCEPT ![c].pc = "done", ![c].outcome = "IntegrityError"]
                /\ UNCHANGED arg1
           ELSE /\ arg1' = Inserted(arg1, User(arg2[c].email, arg2[c].username,
                                                get_password_hash(arg2[c].password)))
                /\ arg2' = [arg2 EXCEPT ![c].pc = "done", ![c].outcome = "created"]
        /\ UNCHANGED <<result, pipelineVars>>

NextUsers ==
    \/ create_user
    \/ create_user_check_email
    \/ create_user_check_username
    \/ create_user_add

SpecUsers == InitUsers /\ [][NextUsers]_vars

UniqueUsers(users) ==
    \A i \in DOMAIN users, j \in DOMAIN users :
        i # j => users[i].email # users[j].email /\ users[i].username # users[j].username

\* C29: whatever the order and interleaving of create_user calls, no two
\* stored users have the same email or the same username, and a call that
\* does not create its user has raised ValueError and added nothing.
C29_UsersUnique ==
    /\ UniqueUsers(arg1)
    /\ \A c \in Calls : arg2[c].outcome \in {"none", "created", "ValueError"}

-----------------------------------------------------------------------------
(* user_service.py: UserService.update_user, one call at a time on a table *)
(* that holds two users.  arg1 is the users table, arg2 the call with the  *)
(* fields of user_update that were set, result is not used.                *)

NoFields == [f \in {} |-> ""]

\* dictionary update: the entries of g over those of f
Merge(f, g) == [x \in DOMAIN f \cup DOMAIN g |-> IF x \in DOMAIN g THEN g[x] ELSE f[x]]

\* user_update.model_dump(exclude_unset=True)
UserUpdates ==
    { Merge(Merge(e, u), pw) :
        e \in {NoFields} \cup {[email |-> x] : x \in Emails \cup {"e3"}},
        u \in {NoFields} \cup {[username |-> x] : x \in Usernames},
        pw \in {NoFields, [password |-> "p2"]} }

\* lines 79-81: update_data["hashed_password"] = get_password_hash(update_data.pop("password"))
HashPassword(update_data) ==
    IF "password" \in DOMAIN update_data
    THEN [x \in (DOMAIN update_data \ {"password"}) \cup {"hashed_password"} |->
             IF x = "hashed_password" THEN get_password_hash(update_data.password)
             ELSE update_data[x]]
    ELSE update_data

NoUpdate == [pc |-> "idle", user_id |-> 0, update_data |-> NoFields, outcome |-> "none"]

InitUpdate ==
    /\ arg1 = <<User("e1", "u1", get_password_hash("p1")),
                User("e2", "u2", get_password_hash("p1"))>>
    /\ arg2 = NoUpdate
    /\ result = <<>>
    /\ Idle

\* a call of update_user(db, user_id, user_update) starts
update_user ==
    \E user_id \in 1..3, update_data \in UserUpdates :
        /\ arg2.pc \in {"idle", "done"}
        /\ arg2' = [pc |-> "get", user_id |-> user_id, update_data |-> update_data,
                    outcome |-> "none"]
        /\ UNCHANGED <<arg1, result, pipelineVars>>

\* lines 73-81
update_user_get ==
    /\ arg2.pc = "get"
    /\ arg2' = IF arg2.user_id \notin DOMAIN arg1
               THEN [arg2 EXCEPT !.pc = "done", !.outcome = "None"]
               ELSE [arg2 EXCEPT !.pc = "check_email",
                                 !.update_data = HashPassword(arg2.update_data)]
    /\ UNCHANGED <<arg1, result, pipelineVars>>

\* lines 83-87 with the email set on the user as soon as it has passed its check
update_user_check_email_setfirst ==
    /\ arg2.pc = "check_email"
    /\ IF /\ "email" \in DOMAIN arg2.update_data
          /\ arg2.update_data.email # arg1[arg2.user_id].email
          /\ get_user_by_email(arg1, arg2.update_data.email)
       THEN /\ arg2' = [arg2 EXCEPT !.pc = "done", !.outcome = "ValueError"]
            /\ UNCHANGED arg1
       ELSE /\ arg2' = [arg2 EXCEPT !.pc = "check_username"]
            /\ arg1' = IF "email" \in DOMAIN arg2.update_data
                       THEN [arg1 EXCEPT ![arg2.user_id].email = arg2.update_data.email]
                       ELSE arg1
    /\ UNCHANGED <<result, pipelineVars>>

\* lines 83-87
update_user_check_email ==
    /\ arg2.pc = "check_email"
    /\ arg2' = IF /\ "email" \in DOMAIN arg2.update_data
                  /\ arg2.update_data.email # arg1[arg2.user_id].email
                  /\ get_user_by_email(arg1, arg2.update_data.email)
               THEN [arg2 EXCEPT !.pc = "done", !.outcome = "ValueError"]
               ELSE [arg2 EXCEPT !.pc = "check_username"]
    /\ UNCHANGED <<arg1, result, pipelineVars>>

\* lines 89-93
update_user_check_username ==
    /\ arg2.pc = "check_username"
    /\ arg2' = IF /\ "username" \in DOMAIN arg2.update_data
                  /\ arg2.update_data.username # arg1[arg2.user_id].username
                  /\ get_user_by_username(arg1, arg2.update_data.username)
               THEN [arg2 EXCEPT !.pc = "done", !.outcome = "ValueError"]
               ELSE [arg2 EXCEPT !.pc = "setattr"]
    /\ UNCHANGED <<arg1, result, pipelineVars>>

\* lines 95-100: setattr(user, field, value) for every entry, flush, refresh
update_user_setattr ==
    /\ arg2.pc = "setattr"
    /\ arg1' = [arg1 EXCEPT ![arg2.user_id] = Merge(arg1[arg2.user_id], arg2.update_data)]
    /\ arg2' = [arg2 EXCEPT !.pc = "done", !.outcome = "updated"]
    /\ UNCHANGED <<result, pipelineVars>>

NextUpdate ==
    \/ update_user
    \/ update_user_get
    \/ update_user_check_email
    \/ update_user_check_username
    \/ update_user_setattr

SpecUpdate == InitUpdate /\ [][NextUpdate]_vars

\* the requested email or username is new for the user and another user has it
BelongsToAnother(users, user_id, update_data) ==
    \/ /\ "email" \in DOMAIN update_data
       /\ \E j \in DOMAIN users : j # user_id /\ users[j].email = update_data.email
    \/ /\ "username" \in DOMAIN update_data
       /\ \E j \in DOMAIN users : j # user_id /\ users[j].username = update_data.username

\* C30: update_user with an email or username that another user has raises
\* ValueError and leaves every field of the user as it was; with an unknown
\* user_id it returns None and changes nothing; a password is stored only
\* hashed, as hashed_password, never as an attribute password.
C30_UpdateAtomicOnError ==
    [][ /\ arg2'.outcome # "updated" => arg1' = arg1
        /\ (arg2.pc # "done" /\ arg2'.pc = "done")
              => /\ arg2.user_id \notin DOMAIN arg1 => arg2'.outcome = "None"
                 /\ (arg2.user_id \in DOMAIN arg1
                        /\ BelongsToAnother(arg1, arg2.user_id, arg2.update_data))
                       => arg2'.outcome = "ValueError"
                 /\ \A i \in DOMAIN arg1' : "password" \notin DOMAIN arg1'[i]
                 /\ (arg2'.outcome = "updated" /\ "hashed_password" \in DOMAIN arg2.update_data)
                       => arg1'[arg2.user_id].hashed_password = get_password_hash("p2")
      ]_vars

\* a call that asked for a new password and for a username another user has
\* ended in ValueError with the user's password as it was
C30_Witness ==
    /\ arg2.pc = "done"
    /\ arg2.outcome = "ValueError"
    /\ "hashed_password" \in DOMAIN arg2.update_data
    /\ "email" \in DOMAIN arg2.update_data
    /\ arg2.update_data.email # arg1[arg2.user_id].email
    /\ ~get_user_by_email(arg1, arg2.update_data.email)
    /\ arg1[arg2.user_id].hashed_password = get_password_hash("p1")

====
